---------------------------- MODULE Spec2Model ----------------------------
(***************************************************************************)
(* Face-extraction service (faceapi): startup of the InsightFace detector, *)
(* the Flask request handlers run by concurrent workers, the image loader  *)
(* (URL / bytes, size guard, two-codec decode), and the detector adapter   *)
(* (readiness gate, model call, box normalisation, confidence filter).     *)
(*                                                                         *)
(* Floats are kept exact: a normalised coordinate is the rational n/d with *)
(* d the image width or height; confidences are in tenths (5 = 0.5).       *)
(***************************************************************************)
EXTENDS Integers, Sequences, FiniteSets, TLC

VARIABLES phase, is_initialized, wk

vars == <<phase, is_initialized, wk>>

----------------------------------------------------------------------------
(* Bounds of the model *)

NumWorkers == 2
MaxDim == 2
MaxOver == 1
MaxExcess == 1

(* Configuration (config/settings.py), scaled *)

MAX_FACES == 2
MIN_CONFIDENCE == 5
MAX_IMAGE_SIZE == 2

Workers == 1..NumWorkers
Dims == 1..MaxDim

Max(a, b) == IF a >= b THEN a ELSE b
Min(a, b) == IF a <= b THEN a ELSE b

----------------------------------------------------------------------------
(* domain/models.py *)

NoImage == [w |-> 0, h |-> 0]
NoResult == [success |-> FALSE, faces |-> <<>>, error |-> "unset", timed |-> FALSE]
None == "None"

\* ExtractionResult(success, faces, error=None, processing_time_ms=0);
\* timed records whether processing_time_ms was measured (else the default 0).
ExtractionResult(success, faces, error, timed) ==
    [success |-> success, faces |-> faces, error |-> error, timed |-> timed]

\* BoundingBox(x, y, width, height), each float kept as numerator / denominator.
BoundingBox(x, y, width, height) ==
    [x |-> x, y |-> y, width |-> width, height |-> height]

DetectedFace(bbox, embedding, confidence) ==
    [bbox |-> bbox, embedding |-> embedding, confidence |-> confidence]

Rat(n, d) == [n |-> n, d |-> d]

----------------------------------------------------------------------------
(* infrastructure/image_loader.py *)

\* Encoded bytes: length, which codec can parse them, and the raster they
\* hold (requests carry MaxDim x 1 rasters; the detector alone is given every
\* size, see Images).
ImageBytes ==
    { b \in [len : 0..(MAX_IMAGE_SIZE + MaxExcess),
             fmt : {"pil", "cv", "bad"},
             w : {MaxDim}, h : {1}] :
        b.len = 0 => b.fmt = "bad" }
EmptyBytes == [len |-> 0, fmt |-> "bad", w |-> MaxDim, h |-> 1]

\* _decode_image: PIL first, OpenCV as fallback, None when both fail.
DecodeImage(data) ==
    IF data.fmt = "pil" THEN [w |-> data.w, h |-> data.h]
    ELSE IF data.fmt = "cv" THEN [w |-> data.w, h |-> data.h]
    ELSE NoImage

\* What a load did: the image (NoImage for None), whether the response body
\* was read, whether the decoder ran and on how many bytes, whether an
\* exception left the loader, and the failure that occurred.
LoadOutcome(img, bodyRead, decoded, decodedLen, raised, fail) ==
    [img |-> img, bodyRead |-> bodyRead, decoded |-> decoded,
     decodedLen |-> decodedLen, raised |-> raised, fail |-> fail]

DecodeOutcome(data, bodyRead) ==
    LET img == DecodeImage(data)
    IN  LoadOutcome(img, bodyRead, TRUE, data.len, FALSE,
                    IF img = NoImage THEN "decode" ELSE "none")

\* load_from_bytes
LoadFromBytes(data) ==
    IF data.len > MAX_IMAGE_SIZE
    THEN LoadOutcome(NoImage, FALSE, FALSE, 0, FALSE, "oversize")
    ELSE DecodeOutcome(data, FALSE)

\* HTTP responses of session.get: a transport error, a non-success status, or
\* a response with a Content-Length header (absent, not a number, or a
\* number), whose body may break off while it is read.  A numeric
\* Content-Length frames the body; without the header the body has any length.
NetErr == [kind |-> "neterr"]
HttpErr == [kind |-> "http_err"]
OkResponses ==
    { r \in [kind : {"ok"},
             hdr : {"absent", "bad", "num"},
             clen : 0..(MAX_IMAGE_SIZE + MaxExcess),
             drop : BOOLEAN,
             body : ImageBytes] :
        /\ r.hdr # "num" => r.clen = 0
        /\ r.hdr = "num" => r.body.len = r.clen
        /\ r.hdr = "bad" => ~r.drop /\ r.body = EmptyBytes
        /\ r.drop => r.body.fmt = "bad" }
Responses == {NetErr, HttpErr} \cup OkResponses

\* int(response.headers.get('Content-Length', 0))
ContentLength(r) == IF r.hdr = "absent" THEN 0 ELSE r.clen

\* if content_length > self.config.MAX_IMAGE_SIZE
DeclaredTooLargeNoCheck(r) == FALSE
DeclaredTooLarge(r) == ContentLength(r) > MAX_IMAGE_SIZE

\* load_from_url, after url[:100] succeeded
LoadFromResponse(r) ==
    IF r.kind = "neterr" THEN LoadOutcome(NoImage, FALSE, FALSE, 0, FALSE, "fetch")
    ELSE IF r.kind = "http_err" THEN LoadOutcome(NoImage, FALSE, FALSE, 0, FALSE, "http")
    ELSE IF r.hdr = "bad" THEN LoadOutcome(NoImage, FALSE, FALSE, 0, FALSE, "header")
    ELSE IF DeclaredTooLarge(r)
         THEN LoadOutcome(NoImage, FALSE, FALSE, 0, FALSE, "oversize")
    ELSE IF r.drop THEN LoadOutcome(NoImage, TRUE, FALSE, 0, FALSE, "fetch")
    ELSE DecodeOutcome(r.body, TRUE)

\* load_from_url on a value that cannot be sliced (JSON null): the TypeError
\* of url[:100] is raised inside the try and caught.
LoadFromBadUrl == LoadOutcome(NoImage, FALSE, FALSE, 0, FALSE, "badurl")

----------------------------------------------------------------------------
(* infrastructure/insightface_detector.py *)

\* A raw observation of the model: pixel box, det_score (if the attribute
\* exists), embedding (or None), and whether its fields convert at all
\* (face.bbox.astype / tolist / float raise otherwise).
RawFace(x1, y1, x2, y2, hasScore, score, hasEmb, valid) ==
    [x1 |-> x1, y1 |-> y1, x2 |-> x2, y2 |-> y2, hasScore |-> hasScore,
     score |-> score, hasEmb |-> hasEmb, valid |-> valid]

Scores == (MIN_CONFIDENCE - 1)..(MIN_CONFIDENCE + 1)

\* Observations whose box is anywhere in or around a W x H image.
BoxFaces(W, H) ==
    { RawFace(x1, y1, x2, y2, TRUE, MIN_CONFIDENCE, TRUE, TRUE) :
        x1 \in (0 - MaxOver)..(W + MaxOver), x2 \in (0 - MaxOver)..(W + MaxOver),
        y1 \in (0 - MaxOver)..(H + MaxOver), y2 \in (0 - MaxOver)..(H + MaxOver) }

\* Observations covering the whole image, with every kind of score.
ScoreFaces(W, H) ==
    { RawFace(0, 0, W, H, TRUE, s, e, v) : s \in Scores, e \in BOOLEAN, v \in BOOLEAN }
    \cup { RawFace(0, 0, W, H, FALSE, 0, e, v) : e \in BOOLEAN, v \in BOOLEAN }

SeqsUpTo(S, n) == UNION { [1..k -> S] : k \in 0..n }

\* What self.model.get(image, max_num=MAX_FACES) may return to a direct caller:
\* one observation with any box (BoxFaces), or up to MAX_FACES observations
\* with any scores.
DetOutputs(W, H) == SeqsUpTo(ScoreFaces(W, H), MAX_FACES)

\* What it may return inside the service: up to MAX_FACES observations, each
\* at or below the threshold, or not convertible.
AppFaces(W, H) ==
    { f \in ScoreFaces(W, H) :
        /\ f.hasScore /\ f.hasEmb /\ f.score <= MIN_CONFIDENCE
        /\ ~f.valid => f.score = MIN_CONFIDENCE }
AppOutputs(W, H) == SeqsUpTo(AppFaces(W, H), MAX_FACES)

\* confidence = float(face.det_score) if hasattr(face, 'det_score') else 0.0
Confidence(face) == IF face.hasScore THEN face.score ELSE 0

\* if confidence < MIN_CONFIDENCE: continue
KeptStrict(confidence) == confidence > MIN_CONFIDENCE
Kept(confidence) == ~(confidence < MIN_CONFIDENCE)

\* norm_x, norm_y, norm_width, norm_height
NormBox(face, W, H) ==
    BoundingBox(Rat(Max(0, face.x1), W),
                Rat(Max(0, face.y1), H),
                Rat(Min(face.x2 - face.x1, W - face.x1), W),
                Rat(Min(face.y2 - face.y1, H - face.y1), H))

\* embedding = face.embedding.tolist() if face.embedding is not None else []
Embedding(face) == IF face.hasEmb THEN "vector" ELSE "empty"

\* The for loop over faces: [raised, out]; an observation that does not convert
\* raises out of the loop.
RECURSIVE ConvertFaces(_, _, _, _)
ConvertFaces(faces, W, H, acc) ==
    IF faces = <<>> THEN [raised |-> FALSE, out |-> acc]
    ELSE LET face == Head(faces)
         IN  IF ~face.valid THEN [raised |-> TRUE, out |-> acc]
             ELSE IF ~Kept(Confidence(face))
                  THEN ConvertFaces(Tail(faces), W, H, acc)
             ELSE ConvertFaces(Tail(faces), W, H,
                      Append(acc, DetectedFace(NormBox(face, W, H),
                                               Embedding(face), Confidence(face))))

\* What a call of a service or detector method gives its caller.
Returned(result) == [raised |-> FALSE, result |-> result]
Propagated == [raised |-> TRUE, result |-> NoResult]

\* if not self.is_initialized
NotReadyNever(init) == FALSE
NotReady(init) == ~init

\* return ExtractionResult(success=False, faces=[], error="Model not initialized")
NotInitializedResult ==
    Returned(ExtractionResult(FALSE, <<>>, "Model not initialized", FALSE))

\* except Exception as e: return ExtractionResult(success=False, faces=[], error=str(e), ...)
ExtractFacesExceptReraise(partial) == Propagated
ExtractFacesExcept(partial) ==
    Returned(ExtractionResult(FALSE, <<>>, "str(e)", TRUE))

\* The body of extract_faces after self.model.get returned faces.
ExtractFacesAfterGet(faces, img) ==
    LET conv == ConvertFaces(faces, img.w, img.h, <<>>)
    IN  IF conv.raised THEN ExtractFacesExcept(conv.out)
        ELSE Returned(ExtractionResult(TRUE, conv.out, None, TRUE))

----------------------------------------------------------------------------
(* application/face_service.py *)

\* if image is None: return ExtractionResult(success=False, faces=[], error=msg)
LoadFailedKeepsNone(msg) == Returned(ExtractionResult(FALSE, <<>>, None, FALSE))
LoadFailed(msg) == Returned(ExtractionResult(FALSE, <<>>, msg, FALSE))

----------------------------------------------------------------------------
(* api/routes.py *)

\* request.get_json() of POST /extract: a falsy value, an object without or
\* with the key image_url (a string or null), or a non-empty list or string
\* that does or does not contain 'image_url'.
JsonBodies ==
    {"falsy", "obj_no_url", "obj_url_str", "obj_url_null", "seq_with_url", "seq_other"}

\* if not data or 'image_url' not in data
MissingUrl(body) == body \in {"falsy", "obj_no_url", "seq_other"}

\* data['image_url'] on a list or string raises TypeError
IndexRaises(body) == body = "seq_with_url"

\* if not result.success: return ..., 500 / return jsonify(result.to_dict());
\* an exception leaving the view is Flask's 500.
StatusOf(ret) ==
    IF ret.raised THEN 500
    ELSE IF ~ret.result.success THEN 500
    ELSE 200

----------------------------------------------------------------------------
(* State *)

IdleWorker ==
    [pc |-> "idle", ep |-> "none", req |-> "none", img |-> NoImage,
     svc |-> FALSE, advertisedOver |-> FALSE, bodyRead |-> FALSE,
     decoded |-> FALSE, decodedOver |-> FALSE, fail |-> "none",
     called |-> FALSE, initAtCall |-> FALSE, modelCalled |-> FALSE,
     raw |-> <<>>, returned |-> FALSE, raised |-> FALSE,
     result |-> NoResult, status |-> 0, reply |-> "none"]

Init ==
    /\ phase = "boot"
    /\ is_initialized = FALSE
    /\ wk = [w \in Workers |-> IdleWorker]

----------------------------------------------------------------------------
(* app.py, InsightFaceDetector.__init__ / _initialize: startup *)

\* InsightFaceDetector.__init__ up to the call of _initialize
Construct ==
    /\ phase = "boot"
    /\ phase' = "loading"
    /\ is_initialized' = FALSE
    /\ UNCHANGED wk

\* _initialize: FaceAnalysis(...) and prepare(...) succeed
InitializeOk ==
    /\ phase = "loading"
    /\ is_initialized' = TRUE
    /\ phase' = "created"
    /\ UNCHANGED wk

\* _initialize: the except branch; the exception leaves create_app and main
InitializeFail ==
    /\ phase = "loading"
    /\ is_initialized' = FALSE
    /\ phase' = "exited"
    /\ UNCHANGED wk

\* create_app returns; main calls app.run(threaded=True)
AppRun ==
    /\ phase = "created"
    /\ phase' = "serving"
    /\ UNCHANGED <<is_initialized, wk>>

\* Requests are dispatched only by app.run, which main calls after create_app.
AdmitsWhileLoading == phase \in {"loading", "created", "serving"}
Admits == phase = "serving"

----------------------------------------------------------------------------
(* Request handling *)

\* The view function gets `ret` from the service and answers.
Complete(rec, ret) ==
    [rec EXCEPT !.pc = "done", !.returned = TRUE, !.raised = ret.raised,
                !.result = ret.result,
                !.status = IF rec.ep = "direct" THEN 0 ELSE StatusOf(ret)]

\* The view function answers without calling the service.
Answer(rec, status, reply) ==
    [rec EXCEPT !.pc = "done", !.status = status, !.reply = reply]

\* FaceExtractionService.extract_from_url / extract_from_bytes after the load
AfterLoad(rec, out, msg) ==
    LET r == [rec EXCEPT !.svc = TRUE, !.bodyRead = out.bodyRead,
                         !.decoded = out.decoded,
                         !.decodedOver = out.decoded /\ out.decodedLen > MAX_IMAGE_SIZE,
                         !.fail = out.fail]
    IN  IF out.raised THEN Complete(r, Propagated)
        ELSE IF out.img = NoImage THEN Complete(r, LoadFailed(msg))
        ELSE [r EXCEPT !.pc = "detect", !.img = out.img]

\* GET /health
HandleHealth(w) ==
    /\ Admits
    /\ wk[w].pc = "idle"
    /\ wk' = [wk EXCEPT ![w] =
                Answer([@ EXCEPT !.ep = "health"], 200,
                       IF is_initialized THEN "ok" ELSE "error")]
    /\ UNCHANGED <<phase, is_initialized>>

\* GET /ready
HandleReady(w) ==
    /\ Admits
    /\ wk[w].pc = "idle"
    /\ wk' = [wk EXCEPT ![w] =
                IF is_initialized
                THEN Answer([@ EXCEPT !.ep = "ready"], 200, "ready")
                ELSE Answer([@ EXCEPT !.ep = "ready"], 503, "not_ready")]
    /\ UNCHANGED <<phase, is_initialized>>

\* POST /extract up to the HTTP fetch of load_from_url
HandleExtract(w, body) ==
    /\ Admits
    /\ wk[w].pc = "idle"
    /\ LET rec == [wk[w] EXCEPT !.ep = "extract", !.req = body]
       IN  wk' = [wk EXCEPT ![w] =
                IF ~is_initialized THEN Answer(rec, 503, "Service not ready")
                ELSE IF MissingUrl(body)
                     THEN Answer(rec, 400, "Missing image_url in request body")
                ELSE IF IndexRaises(body)
                     THEN [Answer(rec, 500, "Internal Server Error") EXCEPT !.raised = TRUE]
                ELSE IF body = "obj_url_null"
                     THEN AfterLoad(rec, LoadFromBadUrl, "Failed to load image from URL")
                ELSE [rec EXCEPT !.pc = "fetching", !.svc = TRUE]]
    /\ UNCHANGED <<phase, is_initialized>>

\* load_from_url from the response on, and extract_from_url's check of it
UrlLoad(w, r) ==
    /\ wk[w].pc = "fetching"
    /\ LET rec == [wk[w] EXCEPT !.advertisedOver =
                       r.kind = "ok" /\ r.hdr = "num" /\ r.clen > MAX_IMAGE_SIZE]
       IN  wk' = [wk EXCEPT ![w] =
                AfterLoad(rec, LoadFromResponse(r), "Failed to load image from URL")]
    /\ UNCHANGED <<phase, is_initialized>>

\* session.get answers, one way or another
UrlResponse(w) ==
    /\ wk[w].pc = "fetching"
    /\ \E r \in Responses : UrlLoad(w, r)

\* POST /extract-bytes up to the call of detector.extract_faces
HandleExtractBytes(w, data) ==
    /\ Admits
    /\ wk[w].pc = "idle"
    /\ LET rec == [wk[w] EXCEPT !.ep = "extract_bytes",
                                !.req = IF data.len = 0 THEN "empty" ELSE "data"]
       IN  wk' = [wk EXCEPT ![w] =
                IF ~is_initialized THEN Answer(rec, 503, "Service not ready")
                ELSE IF data.len = 0
                     THEN Answer(rec, 400, "No image data in request body")
                ELSE AfterLoad(rec, LoadFromBytes(data), "Failed to decode image")]
    /\ UNCHANGED <<phase, is_initialized>>

\* extract_faces: the readiness gate, then entering self.model.get
ExtractFacesEnter(w) ==
    /\ wk[w].pc = "detect"
    /\ LET rec == [wk[w] EXCEPT !.called = TRUE, !.initAtCall = is_initialized]
       IN  wk' = [wk EXCEPT ![w] =
                IF NotReady(is_initialized) THEN Complete(rec, NotInitializedResult)
                ELSE [rec EXCEPT !.pc = "in_model", !.modelCalled = TRUE]]
    /\ UNCHANGED <<phase, is_initialized>>

\* self.model.get returns, the loop converts, the result goes back to the view
ModelGetReturn(w, faces) ==
    /\ wk[w].pc = "in_model"
    /\ wk' = [wk EXCEPT ![w] =
                Complete([@ EXCEPT !.raw = faces,
                                   !.fail = IF \E i \in 1..Len(faces) : ~faces[i].valid
                                            THEN "convert" ELSE @],
                         ExtractFacesAfterGet(faces, wk[w].img))]
    /\ UNCHANGED <<phase, is_initialized>>

\* self.model.get returns inside a request
ServiceModelGet(w) ==
    /\ wk[w].pc = "in_model"
    /\ wk[w].ep # "direct"
    /\ \E faces \in AppOutputs(wk[w].img.w, wk[w].img.h) : ModelGetReturn(w, faces)

\* self.model.get (or image.shape) raises
ModelGetRaise(w) ==
    /\ wk[w].pc = "in_model"
    /\ wk' = [wk EXCEPT ![w] =
                Complete([@ EXCEPT !.fail = "model"], ExtractFacesExcept(<<>>))]
    /\ UNCHANGED <<phase, is_initialized>>

\* The response is sent; the worker is free again.
Finish(w) ==
    /\ wk[w].pc = "done"
    /\ wk' = [wk EXCEPT ![w] = IdleWorker]
    /\ UNCHANGED <<phase, is_initialized>>

Next ==
    \/ Construct
    \/ InitializeOk
    \/ InitializeFail
    \/ AppRun
    \/ \E w \in Workers :
        \/ HandleHealth(w)
        \/ HandleReady(w)
        \/ \E body \in JsonBodies : HandleExtract(w, body)
        \/ UrlResponse(w)
        \/ \E data \in ImageBytes : HandleExtractBytes(w, data)
        \/ ExtractFacesEnter(w)
        \/ ServiceModelGet(w)
        \/ ModelGetRaise(w)
        \/ Finish(w)

Spec == Init /\ [][Next]_vars

----------------------------------------------------------------------------
(* The detector alone: one caller invokes extract_faces on decoded images *)

Images == [w : Dims, h : Dims]

\* detector.extract_faces(image) called directly
DirectCall(w, img) ==
    /\ phase = "component"
    /\ wk[w].pc = "idle"
    /\ wk' = [wk EXCEPT ![w] = [@ EXCEPT !.ep = "direct", !.pc = "detect", !.img = img]]
    /\ UNCHANGED <<phase, is_initialized>>

\* self.model.get returns several observations to the direct caller
DirectModelGet(w) ==
    /\ wk[w].pc = "in_model"
    /\ wk[w].ep = "direct"
    /\ \E faces \in DetOutputs(wk[w].img.w, wk[w].img.h) : ModelGetReturn(w, faces)

\* self.model.get returns one observation, its box anywhere
DirectModelGetBox(w) ==
    /\ wk[w].pc = "in_model"
    /\ wk[w].ep = "direct"
    /\ \E face \in BoxFaces(wk[w].img.w, wk[w].img.h) : ModelGetReturn(w, <<face>>)

NextDetector ==
    \/ \E img \in Images : DirectCall(1, img)
    \/ ExtractFacesEnter(1)
    \/ DirectModelGet(1)
    \/ DirectModelGetBox(1)
    \/ ModelGetRaise(1)
    \/ Finish(1)

\* A detector whose model loaded.
InitDetector ==
    /\ phase = "component"
    /\ is_initialized = TRUE
    /\ wk = [w \in Workers |-> IdleWorker]

SpecDetector == InitDetector /\ [][NextDetector]_vars

\* A detector object in either readiness state.
InitGate ==
    /\ phase = "component"
    /\ is_initialized \in BOOLEAN
    /\ wk = [w \in Workers |-> IdleWorker]

SpecGate == InitGate /\ [][NextDetector]_vars

\* The service and the detector alone, side by side: every path to a result.
SpecAll == (Init \/ InitGate) /\ [][Next \/ NextDetector]_vars

----------------------------------------------------------------------------
(* Properties *)

Extracting(w) == wk[w].ep \in {"extract", "extract_bytes"}

InUnitSquare(b) ==
    /\ 0 <= b.x.n /\ b.x.n <= b.x.d
    /\ 0 <= b.y.n /\ b.y.n <= b.y.d
    /\ b.width.n >= 0
    /\ b.height.n >= 0
    /\ b.x.n + b.width.n <= b.x.d
    /\ b.y.n + b.height.n <= b.y.d

\* C1: every BoundingBox emitted by extract_faces has 0 <= x <= 1, 0 <= y <= 1,
\* width >= 0, height >= 0, x + width <= 1 and y + height <= 1, whatever raw
\* box the model returned (negative corner, beyond the image, outside it,
\* degenerate).
C1_BoxesInUnitSquare ==
    \A w \in Workers :
        (wk[w].returned /\ wk[w].result.success) =>
            \A i \in 1..Len(wk[w].result.faces) :
                InUnitSquare(wk[w].result.faces[i].bbox)

\* C2: no two workers are inside self.model.get at the same time.
C2_ModelCallsSerialized ==
    Cardinality({ w \in Workers : wk[w].pc = "in_model" }) <= 1

\* C3: extract_from_url and extract_from_bytes never raise: once the service
\* was called and the request is answered, no exception left it, and whenever
\* the fetch, the size guard, the decode, the model call or a conversion
\* failed, the result returned has success = false.
C3_ServiceNeverRaises ==
    \A w \in Workers :
        (wk[w].svc /\ wk[w].pc = "done") =>
            /\ ~wk[w].raised
            /\ wk[w].returned
            /\ wk[w].fail # "none" => ~wk[w].result.success

C3_Witness ==
    \E v, w \in Workers :
        /\ wk[v].svc /\ wk[v].pc = "done" /\ wk[v].fail = "convert"
        /\ wk[v].returned /\ ~wk[v].result.success
        /\ wk[w].svc /\ wk[w].pc = "done" /\ wk[w].fail = "decode"
        /\ wk[w].returned /\ ~wk[w].result.success

\* C4: every ExtractionResult returned has faces empty when success is false,
\* and error set exactly when success is false.
C4_ResultInvariant ==
    \A w \in Workers :
        wk[w].returned =>
            /\ ~wk[w].result.success => wk[w].result.faces = <<>>
            /\ (wk[w].result.error # "None") <=> ~wk[w].result.success

C4_Witness ==
    \E v, w \in Workers :
        /\ wk[v].returned /\ wk[v].result.success /\ Len(wk[v].result.faces) > 0
        /\ wk[v].result.error = "None"
        /\ wk[w].returned /\ ~wk[w].result.success /\ wk[w].fail = "oversize"
        /\ wk[w].result.faces = <<>>

\* C5: a call of extract_faces made while is_initialized is false never
\* reaches self.model.get and returns success false, no faces and the error
\* "Model not initialized".
C5_UnreadyNeverCallsModel ==
    \A w \in Workers :
        (wk[w].called /\ ~wk[w].initAtCall) =>
            /\ ~wk[w].modelCalled
            /\ wk[w].pc = "done"
            /\ wk[w].returned /\ ~wk[w].raised
            /\ ~wk[w].result.success
            /\ wk[w].result.faces = <<>>
            /\ wk[w].result.error = "Model not initialized"

C5_Witness ==
    \E w \in Workers :
        wk[w].called /\ ~wk[w].initAtCall /\ ~is_initialized /\ wk[w].pc = "done"

RawConfidence(f) == IF f.hasScore THEN f.score ELSE 0
AtOrAboveThreshold(f) == RawConfidence(f) >= MIN_CONFIDENCE
SameFace(face, f) ==
    /\ face.confidence = RawConfidence(f)
    /\ (face.embedding = "vector") <=> f.hasEmb

\* C6: after a successful extract_faces the faces returned are exactly the
\* detections with confidence >= MIN_CONFIDENCE (no score counts as 0.0), in
\* the model's order.
C6_FacesAreFilteredSubsequence ==
    \A w \in Workers :
        (wk[w].returned /\ wk[w].result.success) =>
            LET want == SelectSeq(wk[w].raw, AtOrAboveThreshold)
                got == wk[w].result.faces
            IN  /\ Len(got) = Len(want)
                /\ \A i \in 1..Len(got) : SameFace(got[i], want[i])

C6_Witness ==
    \E w \in Workers :
        /\ wk[w].returned /\ wk[w].result.success
        /\ Len(wk[w].raw) = 2
        /\ RawConfidence(wk[w].raw[1]) < MIN_CONFIDENCE
        /\ RawConfidence(wk[w].raw[2]) = MIN_CONFIDENCE
        /\ Len(wk[w].result.faces) = 1
        /\ wk[w].result.faces[1].confidence = MIN_CONFIDENCE

\* C7: when the response advertises a Content-Length above MAX_IMAGE_SIZE,
\* load_from_url fails without reading the body and without a decode attempt.
C7_AdvertisedOversizeNotRead ==
    \A w \in Workers :
        wk[w].advertisedOver =>
            /\ ~wk[w].bodyRead
            /\ ~wk[w].decoded
            /\ wk[w].pc = "done" /\ wk[w].returned /\ ~wk[w].result.success

C7_Witness ==
    \E w \in Workers :
        wk[w].advertisedOver /\ wk[w].pc = "done" /\ wk[w].fail = "oversize"

\* C8: data longer than MAX_IMAGE_SIZE is never passed to the decoder, by
\* load_from_bytes or by load_from_url.
C8_OversizeNeverDecoded ==
    \A w \in Workers : ~wk[w].decodedOver

\* C9: readiness is decided during startup, before any request is admitted,
\* and never changes afterwards: a handler runs only once serving has begun,
\* and no step taken after the model load writes is_initialized.
C9_ReadinessSetOnceBeforeTraffic ==
    /\ [](\A w \in Workers : wk[w].pc # "idle" => phase = "serving")
    /\ [][phase \notin {"boot", "loading"} => is_initialized' = is_initialized]_vars

C9_Witness ==
    /\ phase = "serving"
    /\ is_initialized
    /\ \E v, w \in Workers :
        /\ wk[v].pc = "done" /\ wk[v].status = 500
        /\ wk[w].pc = "done" /\ wk[w].status = 200 /\ wk[w].ep = "extract"

NoUrlField(req) == req \in {"falsy", "obj_no_url", "seq_with_url", "seq_other"}

\* C10: POST /extract and POST /extract-bytes answer 503 when not ready,
\* else 400 when image_url is missing (the body is empty), else 500 when the
\* pipeline result has success = false, else 200; the pipeline is invoked
\* only in the last two cases.
C10_StatusOrder ==
    \A w \in Workers :
        (Extracting(w) /\ wk[w].pc = "done") =>
            IF ~is_initialized THEN wk[w].status = 503 /\ ~wk[w].svc
            ELSE IF NoUrlField(wk[w].req) \/ wk[w].req = "empty"
                 THEN wk[w].status = 400 /\ ~wk[w].svc
            ELSE /\ wk[w].svc
                 /\ wk[w].returned
                 /\ wk[w].status = IF wk[w].result.success THEN 200 ELSE 500

=============================================================================
